---- MODULE Spec2Model ----
(***************************************************************************)
(* Timeline remapping core of slidecast (src/src/slidecast/main.py):       *)
(* normalize_cuts, total_cut_before, adjust_timeline, cuts_to_fragments.   *)
(*                                                                         *)
(* Time is an integer number of ticks of 0.5 ns, so that the three         *)
(* tolerances of the code are whole numbers and both sides of every        *)
(* strict / non-strict comparison against them can be exercised:           *)
(*   1e-9 s = 2 ticks,  1e-6 s = 2000 ticks.                               *)
(* A cut or a fragment is a pair <<start, end>>; a slide change is a       *)
(* record [t |-> time, page |-> page]; lists are sequences.                *)
(***************************************************************************)
EXTENDS Integers, Sequences, FiniteSets

VARIABLES
    pc,              \* position of the computation
    raw_cuts,        \* the cut pairs as given (before normalize_cuts)
    cuts,            \* the normalized cut list
    renorm,          \* result of a second normalize_cuts call
    changes,         \* the slide changes as given
    audio_orig_len,  \* duration of the original audio
    fragments,       \* result of cuts_to_fragments
    adjusted,        \* adjust_timeline: the mapped events before the post-pass
    cleaned,         \* adjust_timeline: the returned list
    t_query,         \* <<t1, t2>>: two query times for total_cut_before
    removed,         \* <<total_cut_before(t1), total_cut_before(t2)>>
    args,            \* main: the command line (skew, dry_run, keep_audio)
    steps,           \* main: the steps taken so far, in order
    cleaning_script, \* main: <<fragments>> once the audio-cleaning script is built
    video_script     \* main: <<changes>> once the video-building script is built

vars == <<pc, raw_cuts, cuts, renorm, changes, audio_orig_len, fragments,
          adjusted, cleaned, t_query, removed, args, steps, cleaning_script,
          video_script>>

\* the part of the state that only main uses
main_vars == <<args, steps, cleaning_script, video_script>>

----------------------------------------------------------------------------
(* Tolerances of the code, in ticks.                                       *)

\* merge tolerance 1e-9 s of normalize_cuts
MergeEps == 2

\* snap tolerance 1e-9 s of adjust_timeline
SnapEps == 2

\* monotonicity tolerance 1e-6 s of adjust_timeline
MonoEps == 2000

\* last_t = -1e9 s: below every mapped time minus MonoEps, since mapped
\* times are >= 0; kept within 32 bits
LastInit == -1000000000

\* page value given to an event whose page is None
NoPage == -1

----------------------------------------------------------------------------
(* Bounds of the model.                                                    *)

\* normalize_cuts: endpoints of the raw pairs range over 0..MaxT ticks
MaxT == 5

\* normalize_cuts: number of raw pairs
MaxRawCuts == 2

\* cuts_to_fragments, total_cut_before: the audio lasts 0..FragMaxLen ticks
FragMaxLen == 5

\* cuts_to_fragments, total_cut_before: cut endpoints range from FragMargin
\* ticks before 0 to FragMargin ticks after FragMaxLen
FragMargin == 2

\* cuts_to_fragments, total_cut_before, adjust_timeline: number of cuts
MaxCuts == 2

\* adjust_timeline: times are multiples of Step ticks (Step > MonoEps), from
\* one step before 0 to one step after MaxK steps; the audio lasts 0..MaxK steps
Step == 3000

MaxK == 2

\* adjust_timeline: number of slide changes
MaxChanges == 2

\* main: number of slide changes in the timeline
MainMaxChanges == 1

----------------------------------------------------------------------------
(* Helpers.                                                                *)

Min(a, b) == IF a < b THEN a ELSE b

Max(a, b) == IF a > b THEN a ELSE b

Abs(a) == IF a < 0 THEN 0 - a ELSE a

\* all sequences over S of length 0..n
SeqsUpTo(S, n) == UNION {[1..k -> S] : k \in 0..n}

\* Python's ordering of 2-tuples
TupleLess(x, y) == x[1] < y[1] \/ (x[1] = y[1] /\ x[2] < y[2])

RECURSIVE InsertTuple(_, _)
InsertTuple(x, sorted) ==
    IF sorted = <<>> THEN <<x>>
    ELSE IF TupleLess(x, Head(sorted)) THEN <<x>> \o sorted
    ELSE <<Head(sorted)>> \o InsertTuple(x, Tail(sorted))

\* Faulty variant of SortTuples: the list is left in the order given.
SortTuplesOmitted(s) == s

\* list.sort() on a list of 2-tuples
RECURSIVE SortTuples(_)
SortTuples(s) ==
    IF s = <<>> THEN <<>>
    ELSE InsertTuple(s[Len(s)], SortTuples(SubSeq(s, 1, Len(s) - 1)))

----------------------------------------------------------------------------
(* normalize_cuts                                                          *)

\* Faulty variant of Segments: a pair with a > b is dropped, not oriented.
RECURSIVE SegmentsDropInverted(_)
SegmentsDropInverted(cs) ==
    IF cs = <<>> THEN <<>>
    ELSE IF Head(cs)[2] > Head(cs)[1]
         THEN <<Head(cs)>> \o SegmentsDropInverted(Tail(cs))
         ELSE SegmentsDropInverted(Tail(cs))

\* Faulty variant of Segments: a pair with a = b is kept (>= for >).
RECURSIVE SegmentsKeepEmpty(_)
SegmentsKeepEmpty(cs) ==
    IF cs = <<>> THEN <<>>
    ELSE <<<<Min(Head(cs)[1], Head(cs)[2]), Max(Head(cs)[1], Head(cs)[2])>>>>
             \o SegmentsKeepEmpty(Tail(cs))

\* the comprehension: orient every pair, drop the pairs with a = b
RECURSIVE Segments(_)
Segments(cs) ==
    IF cs = <<>> THEN <<>>
    ELSE LET a == Head(cs)[1]
             b == Head(cs)[2]
         IN  IF Max(a, b) > Min(a, b)
             THEN <<<<Min(a, b), Max(a, b)>>>> \o Segments(Tail(cs))
             ELSE Segments(Tail(cs))

\* Faulty variant of MergeStep: a segment that starts exactly the tolerance
\* after the last end opens a new interval (>= for >).
MergeStepAtTolerance(merged, seg) ==
    IF merged = <<>> \/ seg[1] >= merged[Len(merged)][2] + MergeEps
    THEN Append(merged, seg)
    ELSE [merged EXCEPT ![Len(merged)][2] = Max(@, seg[2])]

\* Faulty variant of MergeStep: the tolerance is added to the stored end
\* instead of to the comparison.
MergeStepPadded(merged, seg) ==
    IF merged = <<>> \/ seg[1] > merged[Len(merged)][2]
    THEN Append(merged, <<seg[1], seg[2] + MergeEps>>)
    ELSE [merged EXCEPT ![Len(merged)][2] = Max(@, seg[2] + MergeEps)]

\* one iteration of the merge loop
MergeStep(merged, seg) ==
    IF merged = <<>> \/ seg[1] > merged[Len(merged)][2] + MergeEps
    THEN Append(merged, seg)
    ELSE [merged EXCEPT ![Len(merged)][2] = Max(@, seg[2])]

RECURSIVE MergeLoop(_, _)
MergeLoop(merged, segs) ==
    IF segs = <<>> THEN merged
    ELSE MergeLoop(MergeStep(merged, Head(segs)), Tail(segs))

normalize_cuts(cs) == MergeLoop(<<>>, SortTuples(Segments(cs)))

----------------------------------------------------------------------------
(* total_cut_before                                                        *)

\* Faulty variant of total_cut_before: inside a cut, the part of the cut
\* after t is counted instead of the part before it (e - t for t - s).
RECURSIVE TotalCutBeforeRest(_, _)
TotalCutBeforeRest(t, cs) ==
    IF cs = <<>> THEN 0
    ELSE LET s == Head(cs)[1]
             e == Head(cs)[2]
             rest == TotalCutBeforeRest(t, Tail(cs))
         IN  IF e <= t THEN (e - s) + rest
             ELSE IF s < t /\ t < e THEN (e - t) + rest
             ELSE rest

\* Faulty variant of total_cut_before: a cut counts in full once it has
\* started (s <= t for e <= t).
RECURSIVE TotalCutBeforeStarted(_, _)
TotalCutBeforeStarted(t, cs) ==
    IF cs = <<>> THEN 0
    ELSE LET s == Head(cs)[1]
             e == Head(cs)[2]
             rest == TotalCutBeforeStarted(t, Tail(cs))
         IN  IF s <= t THEN (e - s) + rest
             ELSE rest

RECURSIVE total_cut_before(_, _)
total_cut_before(t, cs) ==
    IF cs = <<>> THEN 0
    ELSE LET s == Head(cs)[1]
             e == Head(cs)[2]
             rest == total_cut_before(t, Tail(cs))
         IN  IF e <= t THEN (e - s) + rest
             ELSE IF s < t /\ t < e THEN (t - s) + rest
             ELSE rest

----------------------------------------------------------------------------
(* adjust_timeline                                                         *)

\* Faulty variant of Clip: the time is not limited to the audio duration.
ClipBelowOnly(t, L) == Max(0, t)

\* t0 = max(0.0, min(audio_orig_len, float(t0)))
Clip(t, L) == Max(0, Min(L, t))

\* the snap loop: the start of the first cut that holds t0, else t0
RECURSIVE SnapToCut(_, _)
SnapToCut(t0, cs) ==
    IF cs = <<>> THEN t0
    ELSE LET s == Head(cs)[1]
             e == Head(cs)[2]
         IN  IF (s < t0 /\ t0 < e) \/ Abs(t0 - s) < SnapEps
             THEN s
             ELSE SnapToCut(t0, Tail(cs))

\* t_new = max(0.0, t0 - shift)
CutAxisTime(t0, cs) == Max(0, t0 - total_cut_before(t0, cs))

\* one iteration of the loop over the changes: (t_new, page or -1);
\* a page is <<p>>, and <<>> when it is None
MapChange(ch, cs, L) ==
    <<CutAxisTime(SnapToCut(Clip(ch.t, L), cs), cs),
      IF ch.page # <<>> THEN ch.page[1] ELSE NoPage>>

MapChanges(chs, cs, L) == [i \in 1..Len(chs) |-> MapChange(chs[i], cs, L)]

\* Faulty variant of InsertByTime: the sort is not stable, an entry goes
\* before the entries of the same time (<= for <).
RECURSIVE InsertByTimeBeforeEqual(_, _)
InsertByTimeBeforeEqual(x, sorted) ==
    IF sorted = <<>> THEN <<x>>
    ELSE IF x[1] <= Head(sorted)[1] THEN <<x>> \o sorted
    ELSE <<Head(sorted)>> \o InsertByTimeBeforeEqual(x, Tail(sorted))

\* adjusted.sort(key=lambda x: x[0]): stable, by time only
RECURSIVE InsertByTime(_, _)
InsertByTime(x, sorted) ==
    IF sorted = <<>> THEN <<x>>
    ELSE IF x[1] < Head(sorted)[1] THEN <<x>> \o sorted
    ELSE <<Head(sorted)>> \o InsertByTime(x, Tail(sorted))

RECURSIVE SortByTime(_)
SortByTime(s) ==
    IF s = <<>> THEN <<>>
    ELSE InsertByTime(s[Len(s)], SortByTime(SubSeq(s, 1, Len(s) - 1)))

\* Faulty variant of CleanLoop: last_t is not updated when an entry is kept.
RECURSIVE CleanLoopStaleLast(_, _, _)
CleanLoopStaleLast(kept, last_t, adj) ==
    IF adj = <<>> THEN kept
    ELSE IF Head(adj)[1] > last_t + MonoEps
         THEN CleanLoopStaleLast(Append(kept, Head(adj)), last_t, Tail(adj))
         ELSE CleanLoopStaleLast(kept, last_t, Tail(adj))

\* the post-pass: keep an entry only if it is later than the last kept one
\* by more than the tolerance
RECURSIVE CleanLoop(_, _, _)
CleanLoop(kept, last_t, adj) ==
    IF adj = <<>> THEN kept
    ELSE IF Head(adj)[1] > last_t + MonoEps
         THEN CleanLoop(Append(kept, Head(adj)), Head(adj)[1], Tail(adj))
         ELSE CleanLoop(kept, last_t, Tail(adj))

CleanUp(adj) == CleanLoop(<<>>, LastInit, SortByTime(adj))

adjust_timeline(chs, cs, L) == CleanUp(MapChanges(chs, normalize_cuts(cs), L))

----------------------------------------------------------------------------
(* cuts_to_fragments                                                       *)

\* the loop over the cuts, with its break; yields the fragments so far and
\* the cursor
RECURSIVE FragLoop(_, _, _, _)
FragLoop(frags, start, cs, L) ==
    IF cs = <<>> THEN [fragments |-> frags, start |-> start]
    ELSE LET s == Head(cs)[1]
             e == Head(cs)[2]
             f == IF start < s THEN Append(frags, <<start, s>>) ELSE frags
             st == Max(start, e)
         IN  IF st >= L THEN [fragments |-> f, start |-> st]
             ELSE FragLoop(f, st, Tail(cs), L)

cuts_to_fragments(cs, L) ==
    LET r == FragLoop(<<>>, 0, cs, L)
    IN  IF r.start < L THEN Append(r.fragments, <<r.start, L>>)
        ELSE r.fragments

----------------------------------------------------------------------------
(* The state of main where a function is taken on its own.                 *)

MainUnused ==
    /\ args = [skew |-> 0, dry_run |-> FALSE, keep_audio |-> FALSE]
    /\ steps = <<>>
    /\ cleaning_script = <<>>
    /\ video_script = <<>>

----------------------------------------------------------------------------
(* Specification of normalize_cuts: the raw pairs are drawn from the grid, *)
(* normalized, normalized again, and normalized after a reordering.        *)

NormTimes == 0..MaxT

RawCutLists == SeqsUpTo(NormTimes \X NormTimes, MaxRawCuts)

\* the list with the pairs at i and i+1 exchanged
SwapAdjacent(cs, i) ==
    [k \in 1..Len(cs) |->
        IF k = i THEN cs[i + 1] ELSE IF k = i + 1 THEN cs[i] ELSE cs[k]]

\* the list with the two endpoints of pair i exchanged
FlipPair(cs, i) == [cs EXCEPT ![i] = <<cs[i][2], cs[i][1]>>]

InitNormalize ==
    /\ pc = "input"
    /\ raw_cuts \in RawCutLists
    /\ cuts = <<>>
    /\ renorm = <<>>
    /\ changes = <<>>
    /\ audio_orig_len = 0
    /\ fragments = <<>>
    /\ adjusted = <<>>
    /\ cleaned = <<>>
    /\ t_query = <<0, 0>>
    /\ removed = <<0, 0>>
    /\ MainUnused

\* cuts = normalize_cuts(cuts)
Normalize ==
    /\ pc = "input"
    /\ cuts' = normalize_cuts(raw_cuts)
    /\ pc' = "normalized"
    /\ UNCHANGED <<main_vars, raw_cuts, renorm, changes, audio_orig_len, fragments,
                   adjusted, cleaned, t_query, removed>>

\* normalize_cuts applied to its own output
Renormalize ==
    /\ pc = "normalized"
    /\ renorm' = normalize_cuts(cuts)
    /\ pc' = "renormalized"
    /\ UNCHANGED <<main_vars, raw_cuts, cuts, changes, audio_orig_len, fragments,
                   adjusted, cleaned, t_query, removed>>

\* normalize_cuts applied to the same pairs in another order
NormalizeSwapped ==
    /\ pc = "normalized"
    /\ \E i \in 1..(Len(raw_cuts) - 1) :
          renorm' = normalize_cuts(SwapAdjacent(raw_cuts, i))
    /\ pc' = "reordered"
    /\ UNCHANGED <<main_vars, raw_cuts, cuts, changes, audio_orig_len, fragments,
                   adjusted, cleaned, t_query, removed>>

\* normalize_cuts applied to the same pairs, one of them with a and b exchanged
NormalizeFlipped ==
    /\ pc = "normalized"
    /\ \E i \in 1..Len(raw_cuts) :
          renorm' = normalize_cuts(FlipPair(raw_cuts, i))
    /\ pc' = "reordered"
    /\ UNCHANGED <<main_vars, raw_cuts, cuts, changes, audio_orig_len, fragments,
                   adjusted, cleaned, t_query, removed>>

NextNormalize ==
    \/ Normalize
    \/ Renormalize
    \/ NormalizeSwapped
    \/ NormalizeFlipped

SpecNormalize == InitNormalize /\ [][NextNormalize]_vars

(* Covered time. Position 2k stands for the tick k and position 2k+1 for   *)
(* the open span between the ticks k and k+1, so that a closed interval    *)
(* [s, e] covers the positions 2s..2e and a gap shows even when no tick    *)
(* lies inside it.                                                         *)

Positions == 0..(2 * MaxT)

\* covered by the input pairs, each taken as [min(a,b), max(a,b)], a = b discarded
RawCovered ==
    {p \in Positions : \E i \in 1..Len(raw_cuts) :
        /\ raw_cuts[i][1] # raw_cuts[i][2]
        /\ 2 * Min(raw_cuts[i][1], raw_cuts[i][2]) <= p
        /\ p <= 2 * Max(raw_cuts[i][1], raw_cuts[i][2])}

\* covered by the normalized cuts
CutsCovered ==
    {p \in Positions : \E i \in 1..Len(cuts) :
        2 * cuts[i][1] <= p /\ p <= 2 * cuts[i][2]}

\* between the end of one input interval and the start of another that
\* begins no more than the merge tolerance later
NarrowGaps ==
    {p \in Positions : \E i, j \in 1..Len(raw_cuts) :
        /\ raw_cuts[i][1] # raw_cuts[i][2]
        /\ raw_cuts[j][1] # raw_cuts[j][2]
        /\ 2 * Max(raw_cuts[i][1], raw_cuts[i][2]) < p
        /\ p < 2 * Min(raw_cuts[j][1], raw_cuts[j][2])
        /\ Min(raw_cuts[j][1], raw_cuts[j][2])
              - Max(raw_cuts[i][1], raw_cuts[i][2]) <= MergeEps}

\* C4: the output of normalize_cuts is canonical: every interval has
\* start < end, and each interval starts after the previous interval's end
\* by more than the merge tolerance (hence sorted, not overlapping, not
\* touching).
C4_Canonical ==
    pc # "input" =>
        /\ \A i \in 1..Len(cuts) : cuts[i][1] < cuts[i][2]
        /\ \A i \in 1..(Len(cuts) - 1) : cuts[i + 1][1] > cuts[i][2] + MergeEps

\* two intervals come out of two pairs given out of order, one of them inverted
C4_Witness ==
    /\ pc = "normalized"
    /\ Len(raw_cuts) = 2
    /\ Len(cuts) = 2
    /\ raw_cuts[1][1] > raw_cuts[2][2]
    /\ raw_cuts[2][1] > raw_cuts[2][2]

C6_Idempotent == pc = "renormalized" => renorm = cuts

\* the second call ran on a list that the first call had to sort and merge
C6_Witness ==
    /\ pc = "renormalized"
    /\ Len(raw_cuts) = 2
    /\ cuts # <<>>
    /\ cuts # raw_cuts

ProperPairs == SelectSeq(raw_cuts, LAMBDA c : c[1] < c[2])

\* the input pairs without the empty ones (a = b)
NonEmptyPairs == SelectSeq(raw_cuts, LAMBDA c : c[1] # c[2])

\* the input pairs without the empty ones, each inverted pair (a, b) given
\* as (b, a)
OrientedPairs ==
    [i \in 1..Len(NonEmptyPairs) |->
        IF NonEmptyPairs[i][1] < NonEmptyPairs[i][2]
        THEN NonEmptyPairs[i]
        ELSE <<NonEmptyPairs[i][2], NonEmptyPairs[i][1]>>]

----------------------------------------------------------------------------
(* Normalized cut lists: what normalize_cuts returns for the lists of up   *)
(* to n pairs with endpoints in T.                                         *)

NormalizedLists(T, n) ==
    {normalize_cuts(r) : r \in SeqsUpTo({p \in T \X T : p[1] < p[2]}, n)}

\* endpoints of the cuts: before 0, inside the audio, after its end
FragTimes == (0 - FragMargin)..(FragMaxLen + FragMargin)

----------------------------------------------------------------------------
(* Specification of cuts_to_fragments: a normalized cut list and an audio  *)
(* duration are drawn, and the fragments to keep are derived.              *)

InitFragments ==
    /\ pc = "cuts"
    /\ raw_cuts = <<>>
    /\ cuts \in NormalizedLists(FragTimes, MaxCuts)
    /\ renorm = <<>>
    /\ changes = <<>>
    /\ audio_orig_len \in 0..FragMaxLen
    /\ fragments = <<>>
    /\ adjusted = <<>>
    /\ cleaned = <<>>
    /\ t_query = <<0, 0>>
    /\ removed = <<0, 0>>
    /\ MainUnused

\* fragments = cuts_to_fragments(cuts, audio_orig_len)
ToFragments ==
    /\ pc = "cuts"
    /\ fragments' = cuts_to_fragments(cuts, audio_orig_len)
    /\ pc' = "fragmented"
    /\ UNCHANGED <<main_vars, raw_cuts, cuts, renorm, changes, audio_orig_len, adjusted,
                   cleaned, t_query, removed>>

NextFragments == ToFragments

SpecFragments == InitFragments /\ [][NextFragments]_vars

\* positions of [0, audio_orig_len] (2k: the tick k; 2k+1: the span after
\* it); an audio of duration 0 has no time to cover
AudioPositions ==
    IF audio_orig_len = 0 THEN {} ELSE 0..(2 * audio_orig_len)

InCut(p) == \E i \in 1..Len(cuts) : 2 * cuts[i][1] <= p /\ p <= 2 * cuts[i][2]

InFragment(p) ==
    \E i \in 1..Len(fragments) :
        2 * fragments[i][1] <= p /\ p <= 2 * fragments[i][2]

\* the sum of end - start over a list of intervals
RECURSIVE TotalDuration(_)
TotalDuration(s) ==
    IF s = <<>> THEN 0
    ELSE (Head(s)[2] - Head(s)[1]) + TotalDuration(Tail(s))

\* the part of the interval c that lies inside [0, L]
DurationInside(c, L) == Max(0, Min(c[2], L) - Max(c[1], 0))

RECURSIVE TotalDurationInside(_, _)
TotalDurationInside(s, L) ==
    IF s = <<>> THEN 0
    ELSE DurationInside(Head(s), L) + TotalDurationInside(Tail(s), L)

\* C1: the fragments of cuts_to_fragments and the cuts tile
\* [0, audio_orig_len]: every fragment is non-empty and inside
\* [0, audio_orig_len], the fragments are ascending and disjoint, no fragment
\* overlaps a cut, and every point of [0, audio_orig_len] outside the cuts is
\* in a fragment.
C1_FragmentsTileAudio ==
    pc = "fragmented" =>
        /\ \A i \in 1..Len(fragments) :
              /\ fragments[i][1] < fragments[i][2]
              /\ 0 <= fragments[i][1]
              /\ fragments[i][2] <= audio_orig_len
        /\ \A i \in 1..(Len(fragments) - 1) :
              fragments[i][2] <= fragments[i + 1][1]
        /\ \A i \in 1..Len(fragments) : \A j \in 1..Len(cuts) :
              fragments[i][2] <= cuts[j][1] \/ cuts[j][2] <= fragments[i][1]
        /\ \A p \in AudioPositions : InCut(p) \/ InFragment(p)

\* C10: the total duration of the fragments is audio_orig_len minus the
\* total duration of the cuts, a cut counting for the time it removes
\* from [0, audio_orig_len].
C10_FragmentsDuration ==
    pc = "fragmented" =>
        TotalDuration(fragments)
            = audio_orig_len - TotalDurationInside(cuts, audio_orig_len)

----------------------------------------------------------------------------
(* Specification of total_cut_before: a normalized cut list is drawn and   *)
(* the removed duration is queried at two times.                           *)

InitRemoved ==
    /\ pc = "cuts"
    /\ raw_cuts = <<>>
    /\ cuts \in NormalizedLists(FragTimes, MaxCuts)
    /\ renorm = <<>>
    /\ changes = <<>>
    /\ audio_orig_len = 0
    /\ fragments = <<>>
    /\ adjusted = <<>>
    /\ cleaned = <<>>
    /\ t_query = <<0, 0>>
    /\ removed = <<0, 0>>
    /\ MainUnused

\* removed = total_cut_before(t, cuts), for two times
QueryRemoved ==
    /\ pc = "cuts"
    /\ \E t1, t2 \in FragTimes :
          /\ t_query' = <<t1, t2>>
          /\ removed' = <<total_cut_before(t1, cuts), total_cut_before(t2, cuts)>>
    /\ pc' = "queried"
    /\ UNCHANGED <<main_vars, raw_cuts, cuts, renorm, changes, audio_orig_len, fragments,
                   adjusted, cleaned>>

NextRemoved == QueryRemoved

SpecRemoved == InitRemoved /\ [][NextRemoved]_vars

\* C8: total_cut_before is non-decreasing in t for a fixed normalized cut
\* list: t1 <= t2 implies total_cut_before(t1) <= total_cut_before(t2).
C8_RemovedMonotone ==
    (pc = "queried" /\ t_query[1] <= t_query[2]) => removed[1] <= removed[2]

\* the two times lie in different places of a two-cut list: the first inside
\* the first cut, the second past the second cut
C8_Witness ==
    /\ pc = "queried"
    /\ Len(cuts) = 2
    /\ cuts[1][1] < t_query[1]
    /\ t_query[1] < cuts[1][2]
    /\ cuts[2][2] < t_query[2]
    /\ removed[1] < removed[2]

\* the cut-axis time max(0, t - total_cut_before(t)) of the i-th query time
MappedQuery(i) ==
    IF t_query[i] - removed[i] < 0 THEN 0 ELSE t_query[i] - removed[i]

\* C15: the cut-axis mapping t -> max(0, t - total_cut_before(t)) keeps the
\* order of times (t1 <= t2 implies map(t1) <= map(t2)), and the start and
\* the end of a cut map to the same cut-axis time.
C15_OrderPreserving ==
    pc = "queried" =>
        /\ (t_query[1] <= t_query[2] => MappedQuery(1) <= MappedQuery(2))
        /\ ((\E j \in 1..Len(cuts) : cuts[j] = t_query)
                => MappedQuery(1) = MappedQuery(2))

\* the two times are the start and the end of the second of two cuts, and
\* map to one positive time
C15_Witness ==
    /\ pc = "queried"
    /\ Len(cuts) = 2
    /\ t_query = cuts[2]
    /\ MappedQuery(1) > 0
    /\ MappedQuery(1) = MappedQuery(2)

----------------------------------------------------------------------------
(* Specification of adjust_timeline: slide changes, a cut list and an      *)
(* audio duration are drawn; the changes are mapped to the cut axis, then  *)
(* sorted and cleaned.                                                     *)

\* endpoints of the cuts and audio durations, in steps
StepTimes == {k * Step : k \in (0 - 1)..(MaxK + 1)}

\* times of the slide changes: on a step, or one tick before it
EventTimes == {k * Step - d : k \in (0 - 1)..(MaxK + 1), d \in {0, 1}}

\* the list in reverse order, every pair with its endpoints exchanged
Backwards(cs) ==
    [i \in 1..Len(cs) |-> <<cs[Len(cs) + 1 - i][2], cs[Len(cs) + 1 - i][1]>>]

\* cut lists as handed to adjust_timeline: normalized, or still to normalize
GivenCutLists ==
    LET N == NormalizedLists(StepTimes, MaxCuts)
    IN  N \cup {Backwards(c) : c \in N}

\* the changes as parse_timeline builds them from a list of times: with
\* sequential pages 1, 2, ... or with no page (None)
ChangeLists ==
    {[i \in 1..Len(ts) |-> [t |-> ts[i], page |-> IF paged THEN <<i>> ELSE <<>>]] :
        ts \in SeqsUpTo(EventTimes, MaxChanges), paged \in BOOLEAN}

InitAdjust ==
    /\ pc = "given"
    /\ raw_cuts \in GivenCutLists
    /\ cuts = <<>>
    /\ renorm = <<>>
    /\ changes \in ChangeLists
    /\ audio_orig_len \in {L \in StepTimes : L >= 0}
    /\ fragments = <<>>
    /\ adjusted = <<>>
    /\ cleaned = <<>>
    /\ t_query = <<0, 0>>
    /\ removed = <<0, 0>>
    /\ MainUnused

\* cuts = normalize_cuts(cuts) and the loop over the changes
MapEvents ==
    /\ pc = "given"
    /\ cuts' = normalize_cuts(raw_cuts)
    /\ adjusted' = MapChanges(changes, cuts', audio_orig_len)
    /\ pc' = "mapped"
    /\ UNCHANGED <<main_vars, raw_cuts, renorm, changes, audio_orig_len, fragments,
                   cleaned, t_query, removed>>

\* the sort and the post-pass; cleaned is returned
SortAndClean ==
    /\ pc = "mapped"
    /\ cleaned' = CleanUp(adjusted)
    /\ pc' = "returned"
    /\ UNCHANGED <<main_vars, raw_cuts, cuts, renorm, changes, audio_orig_len, fragments,
                   adjusted, t_query, removed>>

NextAdjust ==
    \/ MapEvents
    \/ SortAndClean

SpecAdjust == InitAdjust /\ [][NextAdjust]_vars

\* C2: the list adjust_timeline returns is strictly increasing in time:
\* each entry is later than the one before it by more than the
\* monotonicity tolerance.
C2_StrictlyIncreasing ==
    pc = "returned" =>
        \A k \in 1..(Len(cleaned) - 1) :
            cleaned[k + 1][1] > cleaned[k][1] + MonoEps

\* two entries are returned for changes given out of order, with a cut
C2_Witness ==
    /\ pc = "returned"
    /\ Len(cleaned) = 2
    /\ Len(changes) = 2
    /\ changes[1].t > changes[2].t
    /\ cuts # <<>>

\* the original time of the i-th change, limited to [0, audio_orig_len]
ClippedTime(i) ==
    IF changes[i].t < 0 THEN 0
    ELSE IF changes[i].t > audio_orig_len THEN audio_orig_len
    ELSE changes[i].t

\* the cut-axis time of the start of the j-th normalized cut: the start
\* less the durations of the cuts before it, and not below 0
StartOnCutAxis(j) ==
    Max(0, cuts[j][1] - TotalDuration(SubSeq(cuts, 1, j - 1)))

\* C3 as stated: a change whose original time lies strictly inside a
\* normalized cut is mapped to the cut-axis time of that cut's start.
C3_SnapOriginalTime ==
    pc # "given" =>
        \A i \in 1..Len(changes) : \A j \in 1..Len(cuts) :
            (cuts[j][1] < changes[i].t /\ changes[i].t < cuts[j][2])
                => adjusted[i][1] = StartOnCutAxis(j)

\* C3 amended: a change whose original time, once clipped to
\* [0, audio_orig_len], lies strictly inside a normalized cut is mapped to
\* the cut-axis time of that cut's start.
C3_SnapClippedTime ==
    pc # "given" =>
        \A i \in 1..Len(changes) : \A j \in 1..Len(cuts) :
            (cuts[j][1] < ClippedTime(i) /\ ClippedTime(i) < cuts[j][2])
                => adjusted[i][1] = StartOnCutAxis(j)

\* a change lies strictly inside the second of two cuts and is mapped to a
\* positive time, the first cut being removed before it
C3_Witness ==
    /\ pc = "mapped"
    /\ Len(cuts) = 2
    /\ \E i \in 1..Len(changes) :
          /\ cuts[2][1] < ClippedTime(i)
          /\ ClippedTime(i) < cuts[2][2]
          /\ adjusted[i][1] > 0
          /\ adjusted[i][1] < cuts[2][1]

ClippedTimes == {ClippedTime(i) : i \in 1..Len(changes)}

CleanedTimes == {cleaned[k][1] : k \in 1..Len(cleaned)}

\* C9 as stated: with no cuts, every returned time is the clipped time of
\* a change, and every distinct clipped time is returned.
C9_NoCutsAllClippedTimes ==
    (pc = "returned" /\ raw_cuts = <<>>) => CleanedTimes = ClippedTimes

\* C9 amended: with no cuts, every returned time is the clipped time of a
\* change, and every clipped time is returned or is later than a returned
\* time by no more than the monotonicity tolerance (it was dropped).
C9_NoCutsClippedTimes ==
    (pc = "returned" /\ raw_cuts = <<>>) =>
        /\ CleanedTimes \subseteq ClippedTimes
        /\ \A t \in ClippedTimes : \E u \in CleanedTimes :
              u <= t /\ t <= u + MonoEps

\* with no cuts, a change beyond the audio end is clipped and another
\* change is dropped
C9_Witness ==
    /\ pc = "returned"
    /\ raw_cuts = <<>>
    /\ Len(changes) = 2
    /\ Len(cleaned) = 1
    /\ \E i \in 1..2 : changes[i].t > audio_orig_len
    /\ CleanedTimes # ClippedTimes

----------------------------------------------------------------------------
(* Specification of main (steps 2 to 6): the timeline and the cuts are     *)
(* loaded and shifted by the skew, the audio length is measured, the audio *)
(* is cleaned, the timeline is adjusted, the slides are rendered and the   *)
(* video is built.                                                         *)

\* --skew: none, one step back, one step forward
Skews == {0 - Step, 0, Step}

\* parse_timeline on a list of times: pages 1, 2, ... in the order given
Timelines ==
    {[i \in 1..Len(ts) |-> [t |-> ts[i], page |-> <<i>>]] :
        ts \in SeqsUpTo(EventTimes, MainMaxChanges)}

\* ch.t += args.skew
SkewChanges(chs, skew) ==
    [i \in 1..Len(chs) |-> [t |-> chs[i].t + skew, page |-> chs[i].page]]

\* changes.sort(key=lambda x: x.t): stable
RECURSIVE InsertChange(_, _)
InsertChange(x, sorted) ==
    IF sorted = <<>> THEN <<x>>
    ELSE IF x.t < Head(sorted).t THEN <<x>> \o sorted
    ELSE <<Head(sorted)>> \o InsertChange(x, Tail(sorted))

RECURSIVE SortChanges(_)
SortChanges(s) ==
    IF s = <<>> THEN <<>>
    ELSE InsertChange(s[Len(s)], SortChanges(SubSeq(s, 1, Len(s) - 1)))

\* map_cut over the cuts
SkewCuts(cs, skew) ==
    [i \in 1..Len(cs) |-> <<cs[i][1] + skew, cs[i][2] + skew>>]

InitMain ==
    /\ pc = "start"
    /\ raw_cuts \in GivenCutLists
    /\ cuts = <<>>
    /\ renorm = <<>>
    /\ changes \in Timelines
    /\ audio_orig_len = 0
    /\ fragments = <<>>
    /\ adjusted = <<>>
    /\ cleaned = <<>>
    /\ t_query = <<0, 0>>
    /\ removed = <<0, 0>>
    /\ args \in [skew : Skews, dry_run : BOOLEAN, keep_audio : BOOLEAN]
    /\ steps = <<>>
    /\ cleaning_script = <<>>
    /\ video_script = <<>>

\* 2) the timeline: skew, sort
LoadTimeline ==
    /\ pc = "start"
    /\ changes' = SortChanges(SkewChanges(changes, args.skew))
    /\ steps' = Append(steps, "timeline")
    /\ pc' = "cuts"
    /\ UNCHANGED <<raw_cuts, cuts, renorm, audio_orig_len, fragments, adjusted,
                   cleaned, t_query, removed, args, cleaning_script,
                   video_script>>

\* 3) the cuts: normalize, skew
LoadCuts ==
    /\ pc = "cuts"
    /\ cuts' = SkewCuts(normalize_cuts(raw_cuts), args.skew)
    /\ steps' = Append(steps, "cuts")
    /\ pc' = "length"
    /\ UNCHANGED <<raw_cuts, renorm, changes, audio_orig_len, fragments,
                   adjusted, cleaned, t_query, removed, args, cleaning_script,
                   video_script>>

\* audio_orig_len = get_audio_length(args.audio)
GetAudioLength ==
    /\ pc = "length"
    /\ audio_orig_len' \in {L \in StepTimes : L >= 0}
    /\ steps' = Append(steps, "length")
    /\ pc' = "clean"
    /\ UNCHANGED <<raw_cuts, cuts, renorm, changes, fragments, adjusted,
                   cleaned, t_query, removed, args, cleaning_script,
                   video_script>>

\* 4) if cuts: fragments = cuts_to_fragments(cuts, audio_orig_len)
CutsToFragments ==
    /\ pc = "clean"
    /\ cuts # <<>>
    /\ fragments' = cuts_to_fragments(cuts, audio_orig_len)
    /\ steps' = Append(steps, "fragments")
    /\ pc' = "clean_script"
    /\ UNCHANGED <<raw_cuts, cuts, renorm, changes, audio_orig_len, adjusted,
                   cleaned, t_query, removed, args, cleaning_script,
                   video_script>>

\* else: no cleaning, audio_file = args.audio
NoCuts ==
    /\ pc = "clean"
    /\ cuts = <<>>
    /\ steps' = Append(steps, "no_cuts")
    /\ pc' = "adjust"
    /\ UNCHANGED <<raw_cuts, cuts, renorm, changes, audio_orig_len, fragments,
                   adjusted, cleaned, t_query, removed, args, cleaning_script,
                   video_script>>

\* args.keep_audio and the cleaned file exists: it is used as it is
UseKeptAudio ==
    /\ pc = "clean_script"
    /\ args.keep_audio
    /\ steps' = Append(steps, "kept_audio")
    /\ pc' = "adjust"
    /\ UNCHANGED <<raw_cuts, cuts, renorm, changes, audio_orig_len, fragments,
                   adjusted, cleaned, t_query, removed, args, cleaning_script,
                   video_script>>

\* cleaning_script_path = cut_paste_audio_script(args.audio, fragments, ...)
BuildCleaningScript ==
    /\ pc = "clean_script"
    /\ ~args.keep_audio
    /\ cleaning_script' = <<fragments>>
    /\ steps' = Append(steps, "build_cleaning")
    /\ pc' = IF args.dry_run THEN "adjust" ELSE "clean_run"
    /\ UNCHANGED <<raw_cuts, cuts, renorm, changes, audio_orig_len, fragments,
                   adjusted, cleaned, t_query, removed, args, video_script>>

\* run_script(cleaning_script_path): it returns, or raises and main ends
RunCleaningScript ==
    /\ pc = "clean_run"
    /\ steps' = Append(steps, "run_cleaning")
    /\ pc' \in {"adjust", "failed"}
    /\ UNCHANGED <<raw_cuts, cuts, renorm, changes, audio_orig_len, fragments,
                   adjusted, cleaned, t_query, removed, args, cleaning_script,
                   video_script>>

\* Faulty variant of AdjustTimeline: the step is skipped, the list stays empty.
AdjustTimelineSkipped ==
    /\ pc = "adjust"
    /\ pc' = "render"
    /\ UNCHANGED <<raw_cuts, cuts, renorm, changes, audio_orig_len, fragments,
                   adjusted, cleaned, t_query, removed, args, steps,
                   cleaning_script, video_script>>

\* adjusted_changes = adjust_timeline(changes, cuts, audio_orig_len)
AdjustTimeline ==
    /\ pc = "adjust"
    /\ adjusted' = MapChanges(changes, normalize_cuts(cuts), audio_orig_len)
    /\ cleaned' = adjust_timeline(changes, cuts, audio_orig_len)
    /\ steps' = Append(steps, "adjust")
    /\ pc' = "render"
    /\ UNCHANGED <<raw_cuts, cuts, renorm, changes, audio_orig_len, fragments,
                   t_query, removed, args, cleaning_script, video_script>>

\* 5) the slides are rendered (or listed, in a dry run)
RenderSlides ==
    /\ pc = "render"
    /\ steps' = Append(steps, "render")
    /\ pc' = "video"
    /\ UNCHANGED <<raw_cuts, cuts, renorm, changes, audio_orig_len, fragments,
                   adjusted, cleaned, t_query, removed, args, cleaning_script,
                   video_script>>

\* 6) video_script = build_video_script(audio_file, slide_imgs, adjusted_changes, ...)
BuildVideoScript ==
    /\ pc = "video"
    /\ video_script' = <<cleaned>>
    /\ steps' = Append(steps, "build_video")
    /\ pc' = IF args.dry_run THEN "done" ELSE "video_run"
    /\ UNCHANGED <<raw_cuts, cuts, renorm, changes, audio_orig_len, fragments,
                   adjusted, cleaned, t_query, removed, args, cleaning_script>>

\* run_script(video_script_path): it returns, or raises and main ends
RunVideoScript ==
    /\ pc = "video_run"
    /\ steps' = Append(steps, "run_video")
    /\ pc' \in {"done", "failed"}
    /\ UNCHANGED <<raw_cuts, cuts, renorm, changes, audio_orig_len, fragments,
                   adjusted, cleaned, t_query, removed, args, cleaning_script,
                   video_script>>

NextMain ==
    \/ LoadTimeline
    \/ LoadCuts
    \/ GetAudioLength
    \/ CutsToFragments
    \/ NoCuts
    \/ UseKeptAudio
    \/ BuildCleaningScript
    \/ RunCleaningScript
    \/ AdjustTimeline
    \/ RenderSlides
    \/ BuildVideoScript
    \/ RunVideoScript

SpecMain == InitMain /\ [][NextMain]_vars

\* the step has been taken
Did(name) == \E i \in 1..Len(steps) : steps[i] = name

\* step a has been taken, and step b after it
Before(a, b) ==
    \E i \in 1..Len(steps) : \E j \in 1..Len(steps) :
        i < j /\ steps[i] = a /\ steps[j] = b

\* C12 as stated: once a media script (audio cleaning, video building) is
\* built or run, both the fragment list (when there are cuts) and the
\* adjusted list have been computed.
C12_BothListsBeforeAnyScript ==
    (Did("build_cleaning") \/ Did("run_cleaning") \/ Did("build_video")
        \/ Did("run_video")) =>
        /\ (cuts # <<>> => Did("fragments"))
        /\ Did("adjust")

\* C12 (amended): each list is complete before the script that consumes it
\* is built: the fragment list before the audio-cleaning script, which holds
\* exactly that list, and the adjusted list before the video-building
\* script, which holds exactly that list; a script runs only after it is
\* built; the adjusted list is computed after the audio-cleaning script has
\* been built and run.
C12_EachListBeforeItsScript ==
    /\ Did("build_cleaning") =>
        /\ Before("fragments", "build_cleaning")
        /\ fragments = cuts_to_fragments(cuts, audio_orig_len)
        /\ cleaning_script = <<fragments>>
    /\ Did("run_cleaning") => Before("build_cleaning", "run_cleaning")
    /\ Did("build_video") =>
        /\ Before("adjust", "build_video")
        /\ cleaned = adjust_timeline(changes, cuts, audio_orig_len)
        /\ video_script = <<cleaned>>
    /\ Did("run_video") => Before("build_video", "run_video")
    /\ (Did("adjust") /\ Did("build_cleaning")) =>
        Before("build_cleaning", "adjust")
    /\ (Did("adjust") /\ Did("run_cleaning")) =>
        Before("run_cleaning", "adjust")

C12_Witness ==
    /\ pc = "done"
    /\ Before("fragments", "build_cleaning")
    /\ Before("run_cleaning", "adjust")
    /\ Before("adjust", "build_video")
    /\ Did("run_video")
    /\ fragments # <<>>
    /\ cleaned # <<>>

\* the duration of the kept fragments, or parts of them, before t
RECURSIVE KeptBeforeIn(_, _)
KeptBeforeIn(frags, t) ==
    IF frags = <<>> THEN 0
    ELSE Max(0, Min(Head(frags)[2], t) - Head(frags)[1])
            + KeptBeforeIn(Tail(frags), t)

KeptBefore(t) == KeptBeforeIn(fragments, t)

InKeptFragment(t) ==
    \E k \in 1..Len(fragments) : fragments[k][1] <= t /\ t <= fragments[k][2]

\* C14: once main has the fragments and the adjusted list, every slide
\* change whose clipped time lies in a kept fragment is mapped to the
\* duration of the kept audio before it (up to the snapping tolerance).
C14_AgreeOnCutAxis ==
    (Did("fragments") /\ Did("adjust")) =>
        \A i \in 1..Len(changes) :
            InKeptFragment(ClippedTime(i)) =>
                Abs(adjusted[i][1] - KeptBefore(ClippedTime(i))) < SnapEps

----------------------------------------------------------------------------
(* Claims on adjust_timeline's post-pass (SpecAdjust).                     *)

\* the changes whose mapped time is within the tolerance of the k-th
\* returned time
Colliding(k) ==
    {i \in 1..Len(adjusted) : Abs(adjusted[i][1] - cleaned[k][1]) <= MonoEps}

\* the changes mapped to exactly the k-th returned time
MappedTo(k) == {i \in 1..Len(adjusted) : adjusted[i][1] = cleaned[k][1]}

\* the first in the input sequence
FirstOf(S) == CHOOSE i \in S : \A j \in S : i <= j

====
